---- MODULE Spec2Model ----
(***************************************************************************)
(* ANPM Oracle: the task poller (main loop), in its two implementations:   *)
(*   impl = "hb"  the poller of src/src/index.ts, which talks to the pool  *)
(*                through hasPendingTask / receiveTask / sendTaskResponse  *)
(*                (requestHB, getHBCache, extractMessage of utils/hb.ts);  *)
(*   impl = "ao"  the poller of src/unnamed/part_000, which talks to the   *)
(*                pool through AOProcess.dryRun / AOProcess.sendMessage    *)
(*                (src/unnamed/part_001).                                  *)
(* The remote pool and the inference backend are the environment: every    *)
(* reply they can give is drawn nondeterministically when a call returns.  *)
(***************************************************************************)
EXTENDS Integers, Sequences, FiniteSets, TLC

\* ------------------------------------------------------------------ bounds
\* Number of loop iterations explored.
MaxIters == 3

\* --------------------------------------------------------------- constants
POLL_INTERVAL == 1000
NODE_ID == "node1"
\* JSON.stringify({n_gpu_layers: 48, ctx_size: 20480})
DEFAULT_CONFIG == "{n_gpu_layers:48,ctx_size:20480}"

ABSENT == "ABSENT"
Impls == {"hb", "ao"}
Refs == {"t1", "t2"}
Prompts == {"hi"}
Configs == {ABSENT, "cfg"}
Outputs == {"o1", "o2"}
Codes == {"200", "204", "403", "500"}
Statuses == {"200", "400"}
TagNames == {"Code", "Status"}

\* ------------------------------------------------------------- JS values
\* A JavaScript value as the poller meets it in a task payload.
JObj(r, p, c) == [t |-> "obj", ref |-> r, prompt |-> p, config |-> c, s |-> ""]
JNull == [t |-> "null", ref |-> ABSENT, prompt |-> ABSENT, config |-> ABSENT, s |-> ""]
JUndef == [t |-> "undef", ref |-> ABSENT, prompt |-> ABSENT, config |-> ABSENT, s |-> ""]
JStr(x) == [t |-> "str", ref |-> ABSENT, prompt |-> ABSENT, config |-> ABSENT, s |-> x]

\* JavaScript truthiness of a value.
Truthy(v) == CASE v.t = "obj" -> TRUE
               [] v.t = "str" -> v.s # ""
               [] OTHER -> FALSE

\* Task payloads the pool can put in a message: well-formed tasks, a task
\* without prompt, and JSON null.
TaskObjs == {JObj(r, p, c) : r \in Refs, p \in Prompts, c \in Configs}
JsonVals == TaskObjs \cup {JObj(r, ABSENT, ABSENT) : r \in Refs} \cup {JNull}

\* The Data field of a response message: JSON text (val is what it parses
\* to), text that is not JSON (s), or no Data at all.
DJson(v) == [d |-> "json", val |-> v, s |-> ""]
DText(x) == [d |-> "text", val |-> JUndef, s |-> x]
DUndef == [d |-> "undef", val |-> JUndef, s |-> ""]
Datas == {DJson(v) : v \in JsonVals} \cup {DText(""), DText("plain"), DUndef}

\* JSON.parse(data): the parsed value, or a SyntaxError.
JSONparse(data) == IF data.d = "json" THEN [ok |-> TRUE, val |-> data.val]
                   ELSE [ok |-> FALSE, val |-> JUndef]

\* The raw Data as a JavaScript value (a string, or undefined).
RawData(data) == CASE data.d = "undef" -> JUndef
                   [] data.d = "text" -> JStr(data.s)
                   [] OTHER -> JStr("json-text")

\* ------------------------------------------------------ tags and results
Tag(n, v) == [name |-> n, value |-> v]
NoTags == [n \in TagNames |-> ABSENT]

\* Tag sequences a reply's first message can carry.
TagSeqs == {<<>>}
           \cup {<<Tag("Code", c)>> : c \in Codes}
           \cup {<<Tag("Status", s), Tag("Code", c)>> : s \in Statuses, c \in Codes}
           \cup {<<Tag("Code", c1), Tag("Code", c2)>> : c1, c2 \in {"200", "204"}}

Msg(tags, data) == [Tags |-> tags, Data |-> data]

\* MessageResult / DryRunResult: Error ("" when there is none), Messages
\* (hasMessages = FALSE when the field is missing).
Result(err, has, msgs) == [Error |-> err, hasMessages |-> has, Messages |-> msgs]
Results == {Result("", TRUE, <<Msg(ts, d)>>) : ts \in TagSeqs, d \in Datas}
           \cup {Result("boom", TRUE, <<Msg(<<Tag("Code", "200")>>, DUndef)>>),
                 Result("", FALSE, <<>>),
                 Result("", TRUE, <<>>)}

RECURSIVE reduceTags_first(_, _)
reduceTags_first(tags, acc) ==
  IF tags = <<>> THEN acc
  ELSE reduceTags_first(Tail(tags),
         IF acc[Head(tags).name] = ABSENT
         THEN [acc EXCEPT ![Head(tags).name] = Head(tags).value] ELSE acc)
\* tags.reduce((acc, tag) => { acc[tag.name] = tag.value; return acc }, {})
RECURSIVE reduceTags(_, _)
reduceTags(tags, acc) ==
  IF tags = <<>> THEN acc
  ELSE reduceTags(Tail(tags), [acc EXCEPT ![Head(tags).name] = Head(tags).value])

\* AOProcess.getTagsFromMessage: message?.Messages?.[index]?.Tags?.reduce(...)
getTagsFromMessage(message, index) ==
  IF message.hasMessages /\ index \in 1..Len(message.Messages)
  THEN [defined |-> TRUE, map |-> reduceTags(message.Messages[index].Tags, NoTags)]
  ELSE [defined |-> FALSE, map |-> NoTags]

\* message?.Messages?.[index]?.Data
DataAt(message, index) ==
  IF message.hasMessages /\ index \in 1..Len(message.Messages)
  THEN message.Messages[index].Data ELSE DUndef

getDataFromMessageCall_nocatch(message, index) ==
  LET parsed == JSONparse(DataAt(message, index))
  IN [thrown |-> ~parsed.ok, val |-> parsed.val]
\* AOProcess.getDataFromMessage as a call: try JSON.parse(data), catch and
\* return the raw data.
getDataFromMessageCall(message, index) ==
  LET data == DataAt(message, index)
      parsed == JSONparse(data)
  IN IF parsed.ok THEN [thrown |-> FALSE, val |-> parsed.val]
     ELSE [thrown |-> FALSE, val |-> RawData(data)]

\* AOProcess.getDataFromMessage: JSON.parse(data), or the raw data.
getDataFromMessage(message, index) == getDataFromMessageCall(message, index).val

extractMessage_lenient(msg, idx) ==
  IF ~msg.hasMessages \/ idx \notin 1..Len(msg.Messages)
  THEN [ok |-> FALSE, err |-> "Index out of bounds", tags |-> NoTags, data |-> DUndef]
  ELSE [ok |-> TRUE, err |-> "",
        tags |-> reduceTags(msg.Messages[idx].Tags, NoTags),
        data |-> msg.Messages[idx].Data]
\* hb.ts extractMessage: throws on a missing Messages field and on an index
\* out of bounds; otherwise the folded tags and the raw Data.
extractMessage(msg, idx) ==
  IF ~msg.hasMessages THEN [ok |-> FALSE, err |-> "Invalid message format", tags |-> NoTags, data |-> DUndef]
  ELSE IF idx \notin 1..Len(msg.Messages)
       THEN [ok |-> FALSE, err |-> "Index out of bounds", tags |-> NoTags, data |-> DUndef]
       ELSE [ok |-> TRUE, err |-> "",
             tags |-> reduceTags(msg.Messages[idx].Tags, NoTags),
             data |-> msg.Messages[idx].Data]

HandleOutcome(thrown, why, tagsRead) ==
  [thrown |-> thrown, why |-> why, tagsRead |-> tagsRead]

handleResultSteps_errorIfCheck(result, checkStatus) ==
  LET resultTags == getTagsFromMessage(result, 1)
  IN IF checkStatus /\ result.Error # "" THEN HandleOutcome(TRUE, "error", FALSE)
     ELSE IF /\ checkStatus
             /\ resultTags.defined
             /\ resultTags.map["Status"] # ABSENT
             /\ resultTags.map["Status"] # "200"
          THEN HandleOutcome(TRUE, "status", TRUE)
          ELSE HandleOutcome(FALSE, "none", TRUE)
handleResultSteps_code(result, checkStatus) ==
  LET resultTags == getTagsFromMessage(result, 1)
  IN IF result.Error # "" THEN HandleOutcome(TRUE, "error", FALSE)
     ELSE IF /\ checkStatus
             /\ resultTags.defined
             /\ resultTags.map["Code"] # ABSENT
             /\ resultTags.map["Code"] # "200"
          THEN HandleOutcome(TRUE, "status", TRUE)
          ELSE HandleOutcome(FALSE, "none", TRUE)
\* AOProcess.handleResult, step by step: whether it throws, on what (the
\* Error field, or the Status tag), and whether it got to read the tags.
handleResultSteps(result, checkStatus) ==
  LET resultTags == getTagsFromMessage(result, 1)
  IN IF result.Error # "" THEN HandleOutcome(TRUE, "error", FALSE)
     ELSE IF /\ checkStatus
             /\ resultTags.defined
             /\ resultTags.map["Status"] # ABSENT
             /\ resultTags.map["Status"] # "200"
          THEN HandleOutcome(TRUE, "status", TRUE)
          ELSE HandleOutcome(FALSE, "none", TRUE)

\* AOProcess.handleResult: TRUE when it throws.
handleResult(result, checkStatus) == handleResultSteps(result, checkStatus).thrown

\* What the remote process gives one AOProcess.execute call: a transport
\* failure, or a result.
AOReplies == {[net |-> "fail", result |-> Result("", FALSE, <<>>)]}
             \cup {[net |-> "ok", result |-> r] : r \in Results}

\* AOProcess.execute: the result handed to the caller, or a throw.
execute(reply, checkStatus) ==
  IF reply.net = "fail" \/ handleResult(reply.result, checkStatus)
  THEN [ok |-> FALSE, result |-> reply.result]
  ELSE [ok |-> TRUE, result |-> reply.result]

\* ------------------------------------------------- utils/hb.ts, request.ts
\* Values the pool's cache can hold under pending_taskcount (axios res.data).
CNum(k) == [t |-> "num", n |-> k, s |-> ""]
CStr(x) == [t |-> "str", n |-> 0, s |-> x]
CNull == [t |-> "null", n |-> 0, s |-> ""]
CUndef == [t |-> "undef", n |-> 0, s |-> ""]
CNone == [t |-> "none", n |-> 0, s |-> ""]
CacheVals == {CNum(0), CNum(2), CStr("0"), CStr("2"), CStr("abc"), CStr(""), CNull, CUndef}
CacheReplies == {[net |-> "fail", data |-> CNull]}
                \cup {[net |-> "ok", data |-> v] : v \in CacheVals}

\* Text that is a JSON number, and the number it denotes.
IsDecimal(x) == x \in {"0", "2"}
DecimalOf(x) == CASE x = "0" -> 0 [] x = "2" -> 2 [] OTHER -> 0

\* getHBCache: throws on a transport failure and on null/undefined data;
\* otherwise JSON.parse(res), or res itself when that fails.
getHBCache(reply) ==
  IF reply.net = "fail" \/ reply.data.t \in {"null", "undef"}
  THEN [ok |-> FALSE, val |-> CNone]
  ELSE IF reply.data.t = "str" /\ IsDecimal(reply.data.s)
       THEN [ok |-> TRUE, val |-> CNum(DecimalOf(reply.data.s))]
       ELSE [ok |-> TRUE, val |-> reply.data]

\* JavaScript Number(v) for a cache value.
Number(v) == CASE v.t = "num" -> [nan |-> FALSE, n |-> v.n]
               [] v.t = "str" /\ IsDecimal(v.s) -> [nan |-> FALSE, n |-> DecimalOf(v.s)]
               [] v.t = "str" /\ v.s = "" -> [nan |-> FALSE, n |-> 0]
               [] OTHER -> [nan |-> TRUE, n |-> 0]

hasPendingTask_ge(res) == ~Number(res).nan /\ Number(res).n >= 0
hasPendingTask_notLe(res) == Number(res).nan \/ Number(res).n > 0
\* request.ts hasPendingTask: Number(res) > 0
hasPendingTask(res) == ~Number(res).nan /\ Number(res).n > 0

\* What ao.request gives one requestHB call.
HBReply(net, body, info, error, output, m) ==
  [net |-> net, body |-> body, info |-> info, error |-> error, output |-> output, msg |-> m]
NoResult == Result("", FALSE, <<>>)
HBReplies ==
  {HBReply("fail", "none", "other", "", "none", NoResult),
   HBReply("ok", "none", "other", "", "none", NoResult),
   HBReply("ok", "garbage", "other", "", "none", NoResult),
   HBReply("ok", "json", "hyper-aos", "err", "none", NoResult),
   HBReply("ok", "json", "other", "err", "none", NoResult),
   HBReply("ok", "json", "hyper-aos", "", "none", NoResult),
   HBReply("ok", "json", "other", "", "raw", NoResult)}
  \cup {HBReply("ok", "json", i, "", "msg", r) : i \in {"hyper-aos", "other"}, r \in Results}

\* requestHB, the handling of the response: the parsed output, or a throw.
\* An output that is not JSON is handed on as the raw string, which has
\* neither Error nor Messages.
requestHB(reply) ==
  IF \/ reply.net = "fail"
     \/ reply.body # "json"
     \/ reply.error # ""
     \/ reply.output = "none"
  THEN [ok |-> FALSE, msg |-> NoResult]
  ELSE IF reply.output = "raw" THEN [ok |-> TRUE, msg |-> NoResult]
       ELSE [ok |-> TRUE, msg |-> reply.msg]

\* Envelopes. A payload is undefined, null or the object {output}.
PUndef == [p |-> "undef", output |-> "-"]
PNull == [p |-> "null", output |-> "-"]
PObj(o) == [p |-> "obj", output |-> o]
\* The transmitted data: nothing, or the JSON text of a payload.
SNone == [enc |-> "none", p |-> "undef", output |-> "-"]
SJson(pl) == [enc |-> "json", p |-> pl.p, output |-> pl.output]

\* requestHB, the building of the request: entries with a falsy value are
\* dropped, objects are JSON.stringify'ed (data: data || "").
requestHBParams(tags, data) ==
  [tags |-> SelectSeq(tags, LAMBDA tg : tg.value # ""),
   data |-> IF data.p \in {"undef", "null"} THEN SNone ELSE SJson(data)]

\* AOProcess.toString of a payload: JSON.stringify(value), which is the text
\* "null" for null and no string at all for undefined.
toStringPayload(data) == IF data.p = "undef" THEN SNone ELSE SJson(data)

\* AOProcess.execute, the building of the options: obj2tags(tags) and
\* toString(data).
executeOptions(tags, data) == [tags |-> tags, data |-> toStringPayload(data)]

\* The value of the last tag called n in an envelope, ABSENT if none.
RECURSIVE TagValue(_, _)
TagValue(tags, n) ==
  IF tags = <<>> THEN ABSENT
  ELSE IF tags[Len(tags)].name = n THEN tags[Len(tags)].value
       ELSE TagValue(SubSeq(tags, 1, Len(tags) - 1), n)

\* request.ts receiveTask, Get-Pending-Task envelope.
receiveTaskRequest(nodeID) ==
  requestHBParams(<<Tag("Action", "Get-Pending-Task"), Tag("Nodeid", nodeID)>>, PUndef)

\* part_000 main, Get-Pending-Task envelope (sendMessage: data = null).
getPendingTaskOptions(nodeID) ==
  executeOptions(<<Tag("Action", "Get-Pending-Task"), Tag("NodeID", nodeID)>>, PNull)

sendTaskResponse_swapped(nodeID, ref, output) ==
  requestHBParams(<<Tag("Action", "Task-Response"),
                    Tag("X-Oracle-Node-Id", ref),
                    Tag("X-Reference", nodeID)>>, PObj(output))
\* request.ts sendTaskResponse: the Task-Response envelope.
sendTaskResponse(nodeID, ref, output) ==
  requestHBParams(<<Tag("Action", "Task-Response"),
                    Tag("X-Oracle-Node-Id", nodeID),
                    Tag("X-Reference", ref)>>, PObj(output))

\* part_000 main: the Task-Response envelope.
taskResponseOptions(nodeID, ref, output) ==
  executeOptions(<<Tag("Action", "Task-Response"),
                   Tag("X-Oracle-Node-Id", nodeID),
                   Tag("X-Reference", ref)>>, PObj(output))

\* request.ts receiveTask, the branch taken on the Code tag:
\*   "200" return msg.Messages;  "403" return msg.Error(...), a call of a
\*   falsy value (msg.Error was tested falsy just before), i.e. a TypeError,
\*   with process.exit(1) behind it unreachable;  "204" and anything else
\*   throw an Error.
receiveTaskBranch(code) ==
  CASE code = "200" -> "messages"
    [] code = "403" -> "typeerror"
    [] code = "204" -> "nopending"
    [] OTHER -> "error"

\* request.ts receiveTask, the handling of the response: the task, or a
\* throw. code is the Code tag when the response got as far as the branch
\* on it, "THROWN" before.
receiveTask(reply) ==
  LET r == requestHB(reply)
      em == extractMessage(r.msg, 1)
      code == em.tags["Code"]
      parsed == JSONparse(r.msg.Messages[1].Data)
  IN IF ~r.ok \/ r.msg.Error # "" \/ ~em.ok
     THEN [ok |-> FALSE, code |-> "THROWN", task |-> JUndef]
     ELSE IF receiveTaskBranch(code) = "messages" /\ parsed.ok
          THEN [ok |-> TRUE, code |-> code, task |-> parsed.val]
          ELSE [ok |-> FALSE, code |-> code, task |-> parsed.val]

fetchBranch_taskUnlessKnown(code) ==
  CASE code = "204" -> "nowork"
    [] code = "403" -> "exit"
    [] OTHER -> "task"
\* part_000 main, the branch taken on the Code tag of Get-Pending-Task.
fetchBranch(code) ==
  CASE code = "200" -> "task"
    [] code = "204" -> "nowork"
    [] code = "403" -> "exit"
    [] OTHER -> "warn"

\* ---------------------------------------------------- inference backend
InferReplies == {[kind |-> "ok", out |-> o] : o \in Outputs}
                \cup {[kind |-> k, out |-> "-"] : k \in {"timeout", "network", "status500"}}

runHyperBeamInference_swallow(reply) ==
  IF reply.kind = "ok" THEN [ok |-> TRUE, out |-> reply.out]
  ELSE [ok |-> TRUE, out |-> "undefined"]
\* runHyperBeamInference, the handling of the HTTP response: response.data,
\* or (after logging) a throw.
runHyperBeamInference(reply) ==
  IF reply.kind = "ok" THEN [ok |-> TRUE, out |-> reply.out]
  ELSE [ok |-> FALSE, out |-> "-"]

\* The config handed to runHyperBeamInference: index.ts passes
\* task.config || JSON.stringify({...}), part_000 passes taskData.config.
inferenceConfig(im, t) ==
  IF im = "hb" THEN (IF t.config \in {ABSENT, ""} THEN DEFAULT_CONFIG ELSE t.config)
  ELSE t.config

\* ------------------------------------------------------------ the poller
VARIABLES
  impl,         \* which poller runs: "hb" (index.ts) or "ao" (part_000)
  pc,           \* where main() is: "loop" (top of while), "checking",
                \* "fetching", "inferring", "submitting" (awaiting that call),
                \* "sleeping" (awaiting the timer), "exited"
  task,         \* the task of this iteration (task / taskData), JUndef if none
  output,       \* the inference output of this iteration, "-" if none
  outstanding,  \* the calls issued and not yet returned
  exitCode,     \* the code of process.exit, -1 while running
  hist,         \* what this iteration did so far: calls, returns, logs, sleeps
  failures,     \* consecutive iterations that ended in the catch block
  iters,        \* iterations started
  streak,       \* calls and sleeps since the current run of idle iterations began
  delivered,    \* refs a Get-Pending-Task response with Code 200 delivered
  sinceFetch,   \* per ref, the outputs submitted since it was last delivered
  submitted,    \* per ref, the outputs submitted in the run
  tally,        \* the calls and responses of the run, counted (TallyOff: not counted)
  ex,           \* one AOProcess.execute call, step by step (ExNone: none)
  fn            \* one application of a codec/decoder function (FnNone: none)

pollerVars == <<impl, pc, task, output, outstanding, exitCode, hist, failures,
                iters, streak, delivered, sinceFetch, submitted, tally>>
vars == <<pollerVars, ex, fn>>

ExNone == [pc |-> "none"]
FnNone == [op |-> "none"]

\* The counters of a run.
TallyOff == [on |-> FALSE, check |-> 0, work |-> 0, fetch |-> 0, fetch200 |-> 0,
             infer |-> 0, inferOk |-> 0, submit |-> 0]
TallyZero == [TallyOff EXCEPT !.on = TRUE]

\* An entry of hist.
Ev(e) == [ev |-> e, code |-> "-", cache |-> CNone, ref |-> "-", prompt |-> "-",
          config |-> "-", out |-> "-", node |-> "-", ms |-> 0]

\* The state main() works on, as one record.
St == [pc |-> pc, task |-> task, output |-> output, outstanding |-> outstanding,
       exitCode |-> exitCode, hist |-> hist, failures |-> failures,
       streak |-> streak, delivered |-> delivered, sinceFetch |-> sinceFetch,
       submitted |-> submitted]

\* A Checking response after which main() goes on to fetch: hasPendingTask()
\* true in index.ts (a count above 0), a Code other than "204" in part_000.
WorkReported(e) ==
  /\ e.ev = "checkRet"
  /\ e.code # "THROWN"
  /\ IF impl = "hb" THEN ~Number(e.cache).nan /\ Number(e.cache).n > 0
     ELSE e.code # "204"

\* The counters after the events evs.
Tallied(t, evs) ==
  LET N(P(_)) == Cardinality({i \in 1..Len(evs) : P(evs[i])})
      IsCheck(e) == e.ev = "check"
      IsFetch(e) == e.ev = "fetch"
      IsFetch200(e) == e.ev = "fetchRet" /\ e.code = "200"
      IsInfer(e) == e.ev = "infer"
      IsInferOk(e) == e.ev = "inferRet" /\ e.code = "ok"
      IsSubmit(e) == e.ev = "submit"
  IN IF ~t.on THEN t
     ELSE [t EXCEPT !.check = @ + N(IsCheck),
                    !.work = @ + N(WorkReported),
                    !.fetch = @ + N(IsFetch),
                    !.fetch200 = @ + N(IsFetch200),
                    !.infer = @ + N(IsInfer),
                    !.inferOk = @ + N(IsInferOk),
                    !.submit = @ + N(IsSubmit)]

Apply(st) ==
  /\ pc' = st.pc
  /\ task' = st.task
  /\ output' = st.output
  /\ outstanding' = st.outstanding
  /\ exitCode' = st.exitCode
  /\ hist' = st.hist
  /\ failures' = st.failures
  /\ streak' = st.streak
  /\ delivered' = st.delivered
  /\ sinceFetch' = st.sinceFetch
  /\ submitted' = st.submitted
  /\ tally' = Tallied(tally, SubSeq(st.hist, Len(hist) + 1, Len(st.hist)))
  /\ UNCHANGED <<impl, iters, ex, fn>>

Record(st, e) == [st EXCEPT !.hist = Append(@, e)]
Log(st, level) == Record(st, [Ev("log") EXCEPT !.code = level])
Returned(st, call) == [st EXCEPT !.outstanding = @ \ {call}]
Called(st, call) == [st EXCEPT !.outstanding = @ \cup {call},
                               !.streak.calls = @ + 1]

SleepInterval_backoff(n) == POLL_INTERVAL * (n + 1)
\* The delay of the setTimeout after n consecutive failed iterations.
SleepInterval(n) == POLL_INTERVAL

\* await new Promise((resolve) => setTimeout(resolve, POLL_INTERVAL)) at the
\* end of the try block (and before continue): the timer is started.
Sleep(st) == [st EXCEPT !.pc = "sleeping", !.failures = 0]

Catch_exit(st) == [Log(st, "error") EXCEPT !.pc = "exited", !.exitCode = 1]
Catch_hang(st) == [Log(st, "error") EXCEPT !.pc = "failed"]
\* The catch block of the loop: logger.error, then the same timer.
Catch(st) == [Log(st, "error") EXCEPT !.pc = "sleeping",
                                      !.failures = IF @ < MaxIters THEN @ + 1 ELSE @]

\* process.exit(1)
Exit(st) == [st EXCEPT !.pc = "exited", !.exitCode = 1]

awaitSubmit_no == FALSE
\* index.ts:173 / part_000:325: the Task-Response call is awaited.
awaitSubmit == TRUE

awaitInference_no == FALSE
\* index.ts:161 / part_000:317: the inference call is awaited.
awaitInference == TRUE

\* The Task-Response call of main(): the envelope is built and sent.
IssueSubmit(st, out) ==
  LET env == IF impl = "hb" THEN sendTaskResponse(NODE_ID, st.task.ref, out)
             ELSE taskResponseOptions(NODE_ID, st.task.ref, out)
      xref == TagValue(env.tags, "X-Reference")
      e == [Ev("submit") EXCEPT !.ref = xref,
                                !.node = TagValue(env.tags, "X-Oracle-Node-Id"),
                                !.out = IF env.data.enc = "json" /\ env.data.p = "obj"
                                        THEN env.data.output ELSE ABSENT]
      s1 == Called(Record(Log([st EXCEPT !.output = out], "info"), e), "submit")
      s2 == [s1 EXCEPT !.sinceFetch =
                         [r \in Refs |-> IF r = xref THEN @[r] \cup {e.out} ELSE @[r]],
                       !.submitted =
                         [r \in Refs |-> IF r = xref THEN @[r] \cup {e.out} ELSE @[r]]]
  IN IF awaitSubmit THEN [s2 EXCEPT !.pc = "submitting"]
     ELSE Sleep(Log(s2, "info"))

\* The inference call of main() for task t: the HTTP request is sent.
IssueInference(st, t) ==
  LET e == [Ev("infer") EXCEPT !.prompt = t.prompt, !.config = inferenceConfig(impl, t)]
      s1 == Called(Record(Log(Log([st EXCEPT !.task = t], "info"), "info"), e), "infer")
  IN IF awaitInference THEN [s1 EXCEPT !.pc = "inferring"]
     ELSE IssueSubmit(s1, "promise")

\* The Get-Pending-Task call of main().
IssueFetch(st) ==
  LET env == IF impl = "hb" THEN receiveTaskRequest(NODE_ID)
             ELSE getPendingTaskOptions(NODE_ID)
      node == IF impl = "hb" THEN TagValue(env.tags, "Nodeid")
              ELSE TagValue(env.tags, "NodeID")
  IN [Called(Record(st, [Ev("fetch") EXCEPT !.node = node]), "fetch")
        EXCEPT !.pc = "fetching"]

\* A Get-Pending-Task response with Code 200 that carries task t.
Deliver(st, t) ==
  IF t.t = "obj" /\ t.ref \in Refs
  THEN [st EXCEPT !.delivered = @ \cup {t.ref},
                  !.sinceFetch = [r \in Refs |-> IF r = t.ref THEN {} ELSE @[r]]]
  ELSE st

ZeroStreak == [k |-> 0, calls |-> 0, sleeps |-> 0]

\* The Checking response of this iteration reported nothing pending: Code
\* 204 from Has-Pending-Task, a pending_taskcount of 0 from the cache.
ReportsNothingPending(e) ==
  /\ e.ev = "checkRet"
  /\ \/ e.code = "204"
     \/ e.cache \in {CNum(0), CStr("0")}
IdleIteration(h) == \E i \in 1..Len(h) : ReportsNothingPending(h[i])

\* main() before the loop.
PollerAtStart ==
  /\ pc = "loop"
  /\ task = JUndef
  /\ output = "-"
  /\ outstanding = {}
  /\ exitCode = -1
  /\ hist = <<>>
  /\ failures = 0
  /\ iters = 0
  /\ streak = ZeroStreak
  /\ delivered = {}
  /\ sinceFetch = [r \in Refs |-> {}]
  /\ submitted = [r \in Refs |-> {}]

Init ==
  /\ impl \in Impls
  /\ PollerAtStart
  /\ tally = TallyOff
  /\ ex = ExNone
  /\ fn = FnNone

\* Top of while (true): the Checking call is issued (hasPendingTask() /
\* poolProcess.dryRun({Action: "Has-Pending-Task"})).
IssueCheck ==
  /\ pc = "loop"
  /\ iters < MaxIters
  /\ iters' = iters + 1
  /\ LET base == IF hist = <<>> \/ IdleIteration(hist) THEN streak ELSE ZeroStreak
         st == [St EXCEPT !.pc = "checking", !.task = JUndef, !.output = "-",
                          !.hist = <<Ev("check")>>, !.streak = base]
     IN /\ pc' = "checking"
        /\ task' = JUndef
        /\ output' = "-"
        /\ hist' = <<Ev("check")>>
        /\ outstanding' = outstanding \cup {"check"}
        /\ streak' = [base EXCEPT !.calls = @ + 1]
        /\ tally' = Tallied(tally, <<Ev("check")>>)
  /\ UNCHANGED <<impl, exitCode, failures, delivered, sinceFetch, submitted, ex, fn>>

\* index.ts: hasPendingTask() returns or throws.
CheckReturn_hb ==
  /\ impl = "hb"
  /\ pc = "checking"
  /\ \E reply \in CacheReplies :
       LET r == getHBCache(reply)
           s0 == Returned(St, "check")
       IN IF ~r.ok
          THEN Apply(Catch(Record(s0, [Ev("checkRet") EXCEPT !.code = "THROWN"])))
          ELSE LET s1 == Record(s0, [Ev("checkRet") EXCEPT !.cache = reply.data])
                   s2 == IF ReportsNothingPending(s1.hist[Len(s1.hist)])
                         THEN [s1 EXCEPT !.streak.k = @ + 1] ELSE s1
               IN IF ~hasPendingTask(r.val)
                  THEN Apply(Sleep(Log(s2, "info")))
                  ELSE Apply(IssueFetch(s2))

\* part_000: poolProcess.dryRun returns or throws.
CheckReturn_ao ==
  /\ impl = "ao"
  /\ pc = "checking"
  /\ \E reply \in AOReplies :
       LET r == execute(reply, TRUE)
           s0 == Returned(St, "check")
           code == getTagsFromMessage(r.result, 1).map["Code"]
       IN IF ~r.ok
          THEN Apply(Catch(Record(s0, [Ev("checkRet") EXCEPT !.code = "THROWN"])))
          ELSE LET s1 == Record(s0, [Ev("checkRet") EXCEPT !.code = code])
               IN IF code = "204"
                  THEN Apply(Sleep(Log([s1 EXCEPT !.streak.k = @ + 1], "info")))
                  ELSE Apply(IssueFetch(s1))

\* index.ts: receiveTask(NODE_ID) returns or throws; on a task, task.ref and
\* task.prompt.substring are evaluated (a TypeError on null and on a missing
\* prompt) and the inference call is issued.
FetchReturn_hb ==
  /\ impl = "hb"
  /\ pc = "fetching"
  /\ \E reply \in HBReplies :
       LET r == receiveTask(reply)
           s0 == Returned(St, "fetch")
           e == [Ev("fetchRet") EXCEPT !.code = r.code, !.ref = r.task.ref,
                                       !.prompt = r.task.prompt, !.config = r.task.config]
           s1 == Record(s0, e)
       IN IF ~r.ok THEN Apply(Catch(s1))
          ELSE IF r.task.t # "obj" \/ r.task.prompt = ABSENT
               THEN Apply(Catch(Deliver(s1, r.task)))
               ELSE Apply(IssueInference(Deliver(s1, r.task), r.task))

\* part_000: poolProcess.sendMessage({Action: "Get-Pending-Task"}) returns or
\* throws, and the branch on resultTags.Code is taken.
FetchReturn_ao ==
  /\ impl = "ao"
  /\ pc = "fetching"
  /\ \E reply \in AOReplies :
       LET r == execute(reply, TRUE)
           s0 == Returned(St, "fetch")
           code == getTagsFromMessage(r.result, 1).map["Code"]
           taskData == getDataFromMessage(r.result, 1)
           e == [Ev("fetchRet") EXCEPT !.code = code, !.ref = taskData.ref,
                                       !.prompt = taskData.prompt, !.config = taskData.config]
           s1 == Record(s0, e)
           branch == fetchBranch(code)
       IN IF ~r.ok
          THEN Apply(Catch(Record(s0, [Ev("fetchRet") EXCEPT !.code = "THROWN"])))
          ELSE CASE branch = "task" ->
                      IF ~Truthy(taskData) THEN Apply(Sleep(s1))
                      ELSE IF taskData.prompt = ABSENT
                           THEN Apply(Catch(Deliver(s1, taskData)))
                           ELSE Apply(IssueInference(Deliver(s1, taskData), taskData))
                 [] branch = "nowork" -> Apply(Sleep(Log(s1, "info")))
                 [] branch = "exit" -> Apply(Exit(Log(s1, "error")))
                 [] OTHER -> Apply(Sleep(Log(s1, "warn")))

\* runHyperBeamInference returns or throws; on success the Task-Response
\* call is issued.
InferReturn ==
  /\ "infer" \in outstanding
  /\ \E reply \in InferReplies :
       LET r == runHyperBeamInference(reply)
           s0 == Returned(St, "infer")
           e == [Ev("inferRet") EXCEPT !.code = reply.kind, !.out = reply.out]
       IN IF pc # "inferring" THEN Apply(s0)
          ELSE IF r.ok THEN Apply(IssueSubmit(Record(s0, e), r.out))
               ELSE Apply(Catch(Log(Record(s0, e), "error")))

\* What main() does when the Task-Response call throws.
SubmitFailed_retry(st) == IssueInference(st, st.task)
SubmitFailed_resend(st) == IssueSubmit(st, st.output)
SubmitFailed(st) == Catch(st)

\* sendTaskResponse / poolProcess.sendMessage({Action: "Task-Response"})
\* returns or throws.
SubmitReturn ==
  /\ "submit" \in outstanding
  /\ \E ok \in BOOLEAN :
       LET s0 == Returned(St, "submit")
           e == [Ev("submitRet") EXCEPT !.code = IF ok THEN "ok" ELSE "THROWN"]
       IN IF pc # "submitting" THEN Apply(s0)
          ELSE IF ok THEN Apply(Sleep(Log(Record(s0, e), "info")))
               ELSE Apply(SubmitFailed(Record(s0, e)))

\* The timer fires: back to the top of the loop.
SleepDone ==
  /\ pc = "sleeping"
  /\ Apply([Record(St, [Ev("sleep") EXCEPT !.ms = SleepInterval(failures)])
              EXCEPT !.pc = "loop", !.streak.sleeps = @ + 1])

Next ==
  \/ IssueCheck
  \/ CheckReturn_hb
  \/ CheckReturn_ao
  \/ FetchReturn_hb
  \/ FetchReturn_ao
  \/ InferReturn
  \/ SubmitReturn
  \/ SleepDone

Spec == Init /\ [][Next]_vars

\* ---------------------------------------------------------------- claims
\* Positions of the entries of this iteration's history of a given kind.
Idx(e) == {i \in 1..Len(hist) : hist[i].ev = e}
Count(e) == Cardinality(Idx(e))
Logged(level) == \E i \in Idx("log") : hist[i].code = level
Running == pc # "exited"

\* C1: when the Get-Pending-Task response carries Code=403 the process
\* terminates: nothing but the log of the failure follows that response, no
\* call is outstanding and the poller has exited.
C1_FatalOn403 ==
  \A i \in Idx("fetchRet") :
    hist[i].code = "403" =>
      /\ pc = "exited"
      /\ outstanding = {}
      /\ \A j \in (i + 1)..Len(hist) : hist[j].ev = "log"

\* C2: in an iteration whose Checking response reports nothing pending the
\* check is the only remote call, the loop sleeps exactly once before the
\* next Checking, and k such iterations in a row make k calls and k sleeps.
C2_IdleIterationOneCall ==
  IdleIteration(hist) =>
    /\ Count("check") = 1
    /\ Count("fetch") = 0 /\ Count("infer") = 0 /\ Count("submit") = 0
    /\ pc \in {"sleeping", "loop"}
    /\ outstanding = {}
    /\ Count("sleep") = (IF pc = "loop" THEN 1 ELSE 0)
    /\ streak.calls = streak.k
    /\ streak.sleeps = (IF pc = "loop" THEN streak.k ELSE streak.k - 1)

C2_Witness ==
  /\ IdleIteration(hist)
  /\ pc = "loop"
  /\ streak.k = 2 /\ streak.calls = 2 /\ streak.sleeps = 2

\* C3: after a Get-Pending-Task response with Code=200 whose payload is a
\* task {ref, prompt}, inference is called with that prompt, and once it has
\* succeeded exactly one Task-Response call is made in the iteration, with
\* the task's ref as X-Reference, the node identity and the inference output.
C3_InferThenSubmitThatTask ==
  \A i \in Idx("fetchRet") :
    (hist[i].code = "200" /\ hist[i].ref \in Refs /\ hist[i].prompt \in Prompts) =>
      /\ Count("infer") = 1
      /\ \A k \in Idx("infer") : k > i /\ hist[k].prompt = hist[i].prompt
      /\ Count("submit") <= 1
      /\ \A j \in Idx("inferRet") :
           hist[j].code = "ok" =>
             /\ Count("submit") = 1
             /\ \A k \in Idx("submit") :
                  /\ k > j
                  /\ hist[k].ref = hist[i].ref
                  /\ hist[k].node = NODE_ID
                  /\ hist[k].out = hist[j].out

C3_Witness ==
  /\ pc = "submitting"
  /\ \E i \in Idx("fetchRet"), k \in Idx("submit") :
       /\ hist[i].code = "200" /\ hist[i].ref = "t2"
       /\ hist[k].ref = "t2" /\ hist[k].out = "o2" /\ hist[k].node = NODE_ID

\* C4: when the inference call fails the failure is logged, no Task-Response
\* call is made in that iteration, and the next Checking comes after exactly
\* one poll interval.
C4_InferenceFailureSkipsSubmit ==
  \A j \in Idx("inferRet") :
    hist[j].code # "ok" =>
      /\ Count("submit") = 0
      /\ \E k \in Idx("log") : k > j /\ hist[k].code = "error"
      /\ pc \in {"sleeping", "loop"}
      /\ outstanding = {}
      /\ pc = "sleeping" => Count("sleep") = 0
      /\ pc = "loop" => /\ Count("sleep") = 1
                        /\ \A k \in Idx("sleep") : hist[k].ms = POLL_INTERVAL

C4_Witness ==
  /\ pc = "loop"
  /\ \E j \in Idx("inferRet") : hist[j].code = "timeout"
  /\ Count("sleep") = 1

\* C5: a Get-Pending-Task response with Code=204 is NoWork and not an error:
\* no inference or Task-Response call, the error path is not entered, and
\* the loop goes to the idle wait.
C5_Fetch204IsNoWork ==
  \A i \in Idx("fetchRet") :
    hist[i].code = "204" =>
      /\ Count("infer") = 0 /\ Count("submit") = 0
      /\ ~Logged("error")
      /\ failures = 0
      /\ pc \in {"sleeping", "loop"}

\* C6: a Get-Pending-Task response with any other Code (or none) logs a
\* warning, makes no inference or Task-Response call, falls through to the
\* idle wait and does not terminate the process.
C6_UnexpectedCodeWarns ==
  \A i \in Idx("fetchRet") :
    hist[i].code \notin {"200", "204", "403", "THROWN"} =>
      /\ Logged("warn")
      /\ ~Logged("error")
      /\ Count("infer") = 0 /\ Count("submit") = 0
      /\ pc \in {"sleeping", "loop"}
      /\ exitCode = -1

\* C7: per task the calls are sequential: inference starts only after the
\* Get-Pending-Task response that delivered the task, Task-Response for a
\* ref is issued only after that inference returned successfully, and never
\* for a ref no Get-Pending-Task response has returned.
C7_FetchInferSubmitInOrder ==
  /\ \A k \in Idx("infer") :
       \E i \in Idx("fetchRet") :
         i < k /\ hist[i].code = "200" /\ hist[i].prompt = hist[k].prompt
  /\ \A k \in Idx("submit") :
       /\ hist[k].ref \in delivered
       /\ \E i \in Idx("fetchRet"), j \in Idx("infer"), l \in Idx("inferRet") :
            /\ i < j /\ j < l /\ l < k
            /\ hist[i].code = "200" /\ hist[i].ref = hist[k].ref
            /\ hist[l].code = "ok" /\ hist[l].out = hist[k].out
  /\ "submit" \in outstanding => "infer" \notin outstanding

C7_Witness ==
  /\ iters = 2
  /\ pc = "submitting"
  /\ \E k \in Idx("submit") : hist[k].ref = "t1" /\ hist[k].out = "o1"

\* C8: the poller holds at most one task at a time, at most one call is
\* outstanding, and no Get-Pending-Task call is outstanding together with a
\* Task-Response call.
C8_OneTaskInFlight ==
  /\ Cardinality(outstanding) <= 1
  /\ "fetch" \in outstanding => "submit" \notin outstanding
  /\ Count("fetch") <= 1 /\ Count("submit") <= 1
  /\ task.t = "obj" =>
       \E i \in Idx("fetchRet") : hist[i].code = "200" /\ hist[i].ref = task.ref
  /\ "submit" \in outstanding => pc = "submitting" /\ task.t = "obj"

C8_Witness ==
  /\ "fetch" \in outstanding
  /\ \E r \in Refs : submitted[r] # {}

\* C9: within a run no two Task-Response calls carry the same X-Reference
\* and different outputs unless a Get-Pending-Task response returned that
\* ref again between them.
C9_NoTwoOutputsPerDelivery ==
  \A r \in Refs : Cardinality(sinceFetch[r]) <= 1

C9_Witness ==
  /\ submitted["t1"] = {"o1", "o2"}
  /\ sinceFetch["t1"] = {"o2"}

\* C10: every iteration that does not terminate the process is followed by
\* exactly one sleep of the fixed poll interval before the next Checking,
\* whatever the number of consecutive failures.
C10_OneFixedSleepPerIteration ==
  /\ (pc = "loop" /\ iters > 0) =>
       /\ Count("sleep") = 1
       /\ hist[Len(hist)].ev = "sleep"
       /\ hist[Len(hist)].ms = POLL_INTERVAL
  /\ pc \notin {"loop"} => Count("sleep") = 0
  /\ (Running /\ outstanding = {}) => pc \in {"sleeping", "loop"}

C10_Witness ==
  /\ pc = "loop"
  /\ failures = 2
  /\ hist[Len(hist)].ev = "sleep" /\ hist[Len(hist)].ms = POLL_INTERVAL

\* A step of this iteration failed with a thrown error.
ThrownAt(i) ==
  \/ hist[i].ev \in {"checkRet", "submitRet"} /\ hist[i].code = "THROWN"
  \/ hist[i].ev = "fetchRet" /\ hist[i].code = "THROWN"
  \/ hist[i].ev = "inferRet" /\ hist[i].code # "ok"

\* C11: a thrown failure of the Checking, Fetching, inference or Submitting
\* step never terminates the poller: it is logged in the loop body and the
\* loop goes on; the poller exits from inside the loop only on Code=403.
C11_FailuresAreCaught ==
  /\ \A i \in 1..Len(hist) :
       ThrownAt(i) =>
         /\ Running
         /\ exitCode = -1
         /\ pc \in {"sleeping", "loop"}
         /\ \E k \in Idx("log") : k > i /\ hist[k].code = "error"
  /\ ~Running =>
       /\ \E i \in Idx("fetchRet") : hist[i].code = "403"
       /\ \A i \in 1..Len(hist) : ~ThrownAt(i)

C11_Witness ==
  /\ iters = MaxIters
  /\ failures = MaxIters
  /\ pc = "loop"
  /\ \E i \in 1..Len(hist) : ThrownAt(i) /\ hist[i].ev = "submitRet"

\* ------------------------------------------- AOProcess.execute, by steps
\* Message ids the remote process hands out.
MsgIds == {"m1", "m2"}
ExecModes == {"dryrun", "message"}
ExecTags == {<<Tag("Action", "Has-Pending-Task")>>,
             <<Tag("Action", "Get-Pending-Task"), Tag("NodeID", NODE_ID)>>}
ExecDatas == {PNull, PObj("o1")}

\* Results the remote process can answer one call with.
ExecTagSeqs == {<<>>,
                <<Tag("Code", "200")>>,
                <<Tag("Code", "500")>>,
                <<Tag("Status", "200")>>,
                <<Tag("Status", "400")>>,
                <<Tag("Status", "400"), Tag("Code", "200")>>,
                <<Tag("Status", "200"), Tag("Code", "500")>>,
                <<Tag("Status", "400"), Tag("Status", "200")>>,
                <<Tag("Status", "200"), Tag("Status", "400")>>}
ExecResults == {Result(e, TRUE, <<Msg(ts, DText("plain"))>>) :
                  e \in {"", "boom"}, ts \in ExecTagSeqs}
               \cup {Result(e, FALSE, <<>>) : e \in {"", "boom"}}
               \cup {Result("", TRUE, <<>>)}
ExecReplies == {[net |-> "fail", result |-> NoResult]}
               \cup {[net |-> "ok", result |-> r] : r \in ExecResults}

\* A call to the remote process: dryrun(options), message({...options,
\* signer}) or result({message, process}).
RemoteOp(op, signed, id) == [op |-> op, signed |-> signed, id |-> id]

\* One execute(msgType, tags, data, checkStatus) call.
ExecCall(mt, tg, d, cs) ==
  [pc |-> "new", msgType |-> mt, tags |-> tg, data |-> d, checkStatus |-> cs,
   options |-> executeOptions(<<>>, PUndef), ops |-> <<>>, msgId |-> "-",
   gotResult |-> FALSE, received |-> NoResult, receivedFor |-> "-",
   value |-> NoResult, why |-> "none", tagsRead |-> FALSE]

executeMode_message(msgType) == "message"
\* execute: if (msgType === "dryrun") dryrun(options) else message(...).
executeMode(msgType) == IF msgType = "dryrun" THEN "dryrun" ELSE "message"

\* execute: fetchResult({message: messageId, process}).
fetchResultMessage(messageId) == messageId

\* execute, after the result came in: handleResult, then return msgResult,
\* or rethrow.
ExecFinish(c, reply, forId) ==
  LET r == execute(reply, c.checkStatus)
      h == handleResultSteps(reply.result, c.checkStatus)
  IN IF reply.net = "fail"
     THEN [c EXCEPT !.pc = "thrown", !.why = "transport"]
     ELSE [c EXCEPT !.pc = IF r.ok THEN "returned" ELSE "thrown",
                    !.gotResult = TRUE,
                    !.received = reply.result,
                    !.receivedFor = forId,
                    !.value = IF r.ok THEN r.result ELSE NoResult,
                    !.why = h.why,
                    !.tagsRead = h.tagsRead]

InitExec ==
  /\ impl = "ao"
  /\ PollerAtStart
  /\ tally = TallyOff
  /\ fn = FnNone
  /\ ex \in {ExecCall(mt, tg, d, cs) :
               mt \in ExecModes, tg \in ExecTags, d \in ExecDatas, cs \in BOOLEAN}

\* execute builds the options and issues the dry run or the signed message.
ExecBegin ==
  /\ ex.pc = "new"
  /\ LET mode == executeMode(ex.msgType)
     IN ex' = [ex EXCEPT !.pc = mode,
                         !.options = executeOptions(ex.tags, ex.data),
                         !.ops = Append(@, RemoteOp(mode, mode = "message", "-"))]
  /\ UNCHANGED <<pollerVars, fn>>

\* dryrun(options) settles.
ExecDryrunReturn ==
  /\ ex.pc = "dryrun"
  /\ \E reply \in ExecReplies : ex' = ExecFinish(ex, reply, "-")
  /\ UNCHANGED <<pollerVars, fn>>

\* message(...) settles: a message id, or a failure; with the id the result
\* is read.
ExecMessageReturn ==
  /\ ex.pc = "message"
  /\ \/ ex' = [ex EXCEPT !.pc = "thrown", !.why = "transport"]
     \/ \E id \in MsgIds :
          ex' = [ex EXCEPT !.pc = "result", !.msgId = id,
                           !.ops = Append(@, RemoteOp("result", FALSE, fetchResultMessage(id)))]
  /\ UNCHANGED <<pollerVars, fn>>

\* fetchResult(...) settles.
ExecResultReturn ==
  /\ ex.pc = "result"
  /\ \E reply \in ExecReplies :
       ex' = ExecFinish(ex, reply, ex.ops[Len(ex.ops)].id)
  /\ UNCHANGED <<pollerVars, fn>>

NextExec ==
  \/ ExecBegin
  \/ ExecDryrunReturn
  \/ ExecMessageReturn
  \/ ExecResultReturn

SpecExec == InitExec /\ [][NextExec]_vars

ExecDone == ex.pc \in {"returned", "thrown"}
\* The tags of the first message of the received result, if it has one.
FirstTags(r) == IF r.hasMessages /\ Len(r.Messages) >= 1 THEN r.Messages[1].Tags ELSE <<>>

\* C12: execute fails whenever the received result has a non-empty Error, in
\* both modes and for both values of checkStatus; the Status tag is then not
\* examined and the result is not returned.
C12_ErrorAlwaysFails ==
  (ExecDone /\ ex.gotResult /\ ex.received.Error # "") =>
    /\ ex.pc = "thrown"
    /\ ex.why = "error"
    /\ ~ex.tagsRead
    /\ ex.value = NoResult

C12_Witness ==
  /\ ex.pc = "thrown" /\ ex.gotResult
  /\ ex.msgType = "message" /\ ~ex.checkStatus
  /\ ex.received.Error = "boom"
  /\ TagValue(FirstTags(ex.received), "Status") = "400"

\* C13: with an empty Error, execute fails exactly when checkStatus is true
\* and the first message's tags hold a Status other than "200"; otherwise it
\* returns the received result unchanged, whatever the Code tag.
C13_StatusDecidesFailure ==
  (ExecDone /\ ex.gotResult /\ ex.received.Error = "") =>
    LET status == TagValue(FirstTags(ex.received), "Status")
        bad == ex.checkStatus /\ status \notin {ABSENT, "200"}
    IN /\ ex.pc = "thrown" <=> bad
       /\ ex.pc = "returned" => ex.value = ex.received

C13_Witness ==
  /\ ex.pc = "returned" /\ ex.checkStatus
  /\ TagValue(FirstTags(ex.received), "Status") = "200"
  /\ TagValue(FirstTags(ex.received), "Code") = "500"

\* C14: in dryrun mode execute makes only a dry run and submits no signed
\* message; in message mode it submits one signed message, reads the result
\* only once the submission returned its id, and returns the result read
\* for that id.
C14_DryrunReadsMessageCommits ==
  LET msgs == {i \in 1..Len(ex.ops) : ex.ops[i].op = "message"}
      reads == {i \in 1..Len(ex.ops) : ex.ops[i].op = "result"}
      dry == {i \in 1..Len(ex.ops) : ex.ops[i].op = "dryrun"}
  IN /\ \A i \in 1..Len(ex.ops) : ex.ops[i].signed <=> i \in msgs
     /\ ex.msgType = "dryrun" =>
          /\ msgs = {} /\ reads = {}
          /\ Cardinality(dry) = (IF ex.pc = "new" THEN 0 ELSE 1)
     /\ ex.msgType = "message" =>
          /\ dry = {}
          /\ Cardinality(msgs) = (IF ex.pc = "new" THEN 0 ELSE 1)
          /\ Cardinality(reads) <= 1
          /\ \A i \in reads : /\ \E j \in msgs : j < i
                              /\ ex.msgId \in MsgIds
                              /\ ex.ops[i].id = ex.msgId
          /\ ex.pc = "message" => reads = {}
          /\ ex.pc = "returned" => /\ reads # {}
                                   /\ ex.receivedFor = ex.msgId
                                   /\ ex.value = ex.received

C14_Witness ==
  /\ ex.msgType = "message" /\ ex.pc = "returned"
  /\ ex.msgId = "m2" /\ ex.receivedFor = "m2"
  /\ Len(ex.ops) = 2

\* ------------------------------------ tag codec and result decoder, alone
\* Longest tag sequence decoded.
MaxTags == 3

\* A JavaScript value handed to AOProcess.toString.
VStr(x) == [t |-> "str", s |-> x, n |-> 0, b |-> FALSE]
VNum(k) == [t |-> "num", s |-> "", n |-> k, b |-> FALSE]
VBool(x) == [t |-> "bool", s |-> "", n |-> 0, b |-> x]
VNull == [t |-> "null", s |-> "", n |-> 0, b |-> FALSE]
VUndef == [t |-> "undef", s |-> "", n |-> 0, b |-> FALSE]
\* A plain object ({a: 1}) and an object that refers to itself.
VObj == [t |-> "obj", s |-> "", n |-> 0, b |-> FALSE]
VCyclic == [t |-> "cyclic", s |-> "", n |-> 0, b |-> FALSE]

PrimVals == {VStr("x"), VStr("5"), VNum(5), VBool(TRUE), VNull}
AnyVals == PrimVals \cup {VStr(""), VNum(0), VNum(-1), VBool(FALSE), VUndef, VObj, VCyclic}

\* typeof value
typeOf(v) == CASE v.t = "str" -> "string"
               [] v.t = "num" -> "number"
               [] v.t = "bool" -> "boolean"
               [] v.t = "undef" -> "undefined"
               [] OTHER -> "object"

\* JSON.stringify(value): JSON text, undefined for undefined, a TypeError
\* for a circular structure.
JSONstringify(v) ==
  CASE v.t = "str" -> [thrown |-> FALSE, val |-> VStr("\"" \o v.s \o "\"")]
    [] v.t = "num" -> [thrown |-> FALSE, val |-> VStr(ToString(v.n))]
    [] v.t = "bool" -> [thrown |-> FALSE, val |-> VStr(IF v.b THEN "true" ELSE "false")]
    [] v.t = "null" -> [thrown |-> FALSE, val |-> VStr("null")]
    [] v.t = "undef" -> [thrown |-> FALSE, val |-> VUndef]
    [] v.t = "obj" -> [thrown |-> FALSE, val |-> VStr("{\"a\":1}")]
    [] OTHER -> [thrown |-> TRUE, val |-> VUndef]

\* String(value)
StringCoerce(v) ==
  CASE v.t = "str" -> v.s
    [] v.t = "num" -> ToString(v.n)
    [] v.t = "bool" -> IF v.b THEN "true" ELSE "false"
    [] v.t = "null" -> "null"
    [] v.t = "undef" -> "undefined"
    [] OTHER -> "[object Object]"

toString_quoted(value) ==
  IF typeOf(value) = "number" THEN VStr(ToString(value.n))
  ELSE LET j == JSONstringify(value)
       IN IF j.thrown THEN VStr(StringCoerce(value)) ELSE j.val
\* AOProcess.toString: what the call returns.
toString(value) ==
  IF typeOf(value) = "string" THEN value
  ELSE IF typeOf(value) = "number" THEN VStr(ToString(value.n))
  ELSE LET j == JSONstringify(value)
       IN IF j.thrown THEN VStr(StringCoerce(value)) ELSE j.val

\* A JavaScript object: its entries in insertion order, keys distinct.
Entry(k, v) == [key |-> k, value |-> v]
ObjsOf(vals) ==
  {<<>>}
  \cup {<<Entry(k, v)>> : k \in TagNames, v \in vals}
  \cup UNION {{<<Entry(k1, v1), Entry(k2, v2)>> :
                 k2 \in TagNames \ {k1}, v1 \in vals, v2 \in vals} : k1 \in TagNames}
\* obj[k], undefined when k is no key.
Lookup(obj, k) ==
  IF \E i \in 1..Len(obj) : obj[i].key = k
  THEN obj[CHOOSE i \in 1..Len(obj) : obj[i].key = k].value
  ELSE VUndef

\* The value of a tag as the decoder's mapping holds it.
TagText(v) == IF v.t = "str" THEN v.s ELSE ABSENT
\* A value read out of a decoded mapping.
AsValue(x) == IF x = ABSENT THEN VUndef ELSE VStr(x)

\* AOProcess.obj2tags: Object.entries(obj).map(([key, value]) =>
\* ({name: key, value: this.toString(value)}))
obj2tags(obj) ==
  [i \in 1..Len(obj) |-> Tag(obj[i].key, TagText(toString(obj[i].value)))]

\* Tag sequences of up to MaxTags tags.
TagValues == {"200", "400"}
BoundedTagSeqs ==
  UNION {[1..n -> {Tag(nm, v) : nm \in TagNames, v \in TagValues}] : n \in 0..MaxTags}

\* Results handed to the result decoder, and the (1-based) indexes asked for.
DecoderResults ==
  {Result("", TRUE, <<Msg(<<Tag("Code", "200")>>, d)>>) : d \in Datas}
  \cup {Result("", TRUE, <<Msg(<<Tag("Code", "200")>>, DText("plain")),
                          Msg(<<Tag("Code", "204"), Tag("Status", "200")>>, d)>>) :
          d \in {DJson(JNull), DText("plain")}}
  \cup {Result("", FALSE, <<>>), Result("", TRUE, <<>>)}
DecoderIdx == 0..2

\* One call of a codec or decoder function: its input, then its outcome.
FnCall(op, input) == [op |-> op, stage |-> "in", input |-> input, out |-> <<>>]
FnOut(c, out) == [c EXCEPT !.stage = "out", !.out = out]
FnDone(op) == fn.op = op /\ fn.stage = "out"

\* The calls of the codec and decoder functions, one function at a time.
PureCalls ==
  \/ fn \in {FnCall("decode", ts) : ts \in BoundedTagSeqs}
  \/ fn \in {FnCall("roundtrip", m) : m \in ObjsOf(PrimVals)}
  \/ fn \in {FnCall("toString", v) : v \in AnyVals}
  \/ fn \in {FnCall("dataOf", [msg |-> r, idx |-> i]) : r \in DecoderResults, i \in DecoderIdx}
  \/ fn \in {FnCall("tagsOf", [msg |-> r, idx |-> i]) : r \in DecoderResults, i \in DecoderIdx}

InitPure ==
  /\ impl = "ao"
  /\ PollerAtStart
  /\ tally = TallyOff
  /\ ex = ExNone
  /\ PureCalls

\* The sequence is decoded as the tags of a result's only message, by both
\* decoders.
Decode ==
  /\ fn.op = "decode" /\ fn.stage = "in"
  /\ LET r == Result("", TRUE, <<Msg(fn.input, DUndef)>>)
     IN fn' = FnOut(fn, [ao |-> getTagsFromMessage(r, 1).map,
                         hb |-> extractMessage(r, 1).tags])
  /\ UNCHANGED <<pollerVars, ex>>

\* An object is encoded by obj2tags and its tags are decoded again.
RoundTrip ==
  /\ fn.op = "roundtrip" /\ fn.stage = "in"
  /\ LET r == Result("", TRUE, <<Msg(obj2tags(fn.input), DUndef)>>)
     IN fn' = FnOut(fn, getTagsFromMessage(r, 1).map)
  /\ UNCHANGED <<pollerVars, ex>>

StringifyCall ==
  /\ fn.op = "toString" /\ fn.stage = "in"
  /\ fn' = FnOut(fn, toString(fn.input))
  /\ UNCHANGED <<pollerVars, ex>>

DataOfCall ==
  /\ fn.op = "dataOf" /\ fn.stage = "in"
  /\ fn' = FnOut(fn, getDataFromMessageCall(fn.input.msg, fn.input.idx))
  /\ UNCHANGED <<pollerVars, ex>>

\* Both decoders are asked for the tags of the message at the index; the
\* outcome is a mapping, undefined, or the error thrown.
TagsOfCall ==
  /\ fn.op = "tagsOf" /\ fn.stage = "in"
  /\ LET a == getTagsFromMessage(fn.input.msg, fn.input.idx)
         h == extractMessage(fn.input.msg, fn.input.idx)
     IN fn' = FnOut(fn, [ao |-> IF a.defined THEN "mapping" ELSE "undefined",
                         hb |-> IF h.ok THEN "mapping" ELSE h.err])
  /\ UNCHANGED <<pollerVars, ex>>

NextPure ==
  \/ Decode
  \/ RoundTrip
  \/ StringifyCall
  \/ DataOfCall
  \/ TagsOfCall

SpecPure == InitPure /\ [][NextPure]_vars

\* The names of a tag sequence, and the keys of a decoded mapping.
NamesOf(tags) == {tags[i].name : i \in 1..Len(tags)}
KeysOf(map) == {n \in DOMAIN map : map[n] # ABSENT}
\* The value of the last tag of the sequence with the name.
LastValue(tags, nm) ==
  LET at == {i \in 1..Len(tags) : tags[i].name = nm}
  IN tags[CHOOSE i \in at : \A j \in at : j <= i].value

\* C15: decoding a tag sequence keeps, for a name that occurs more than
\* once, the value of its last occurrence; the keys of the mapping are
\* exactly the names of the sequence.
C15_DecodeLastWins ==
  FnDone("decode") =>
    \A map \in {fn.out.ao, fn.out.hb} :
      /\ KeysOf(map) = NamesOf(fn.input)
      /\ \A nm \in NamesOf(fn.input) : map[nm] = LastValue(fn.input, nm)

C15_Witness ==
  /\ FnDone("decode")
  /\ fn.input = <<Tag("Status", "400"), Tag("Code", "200"), Tag("Status", "200")>>
  /\ fn.out.ao["Status"] = "200" /\ fn.out.hb["Status"] = "200"
  /\ fn.out.ao["Code"] = "200"

KeysOfObj(obj) == {obj[i].key : i \in 1..Len(obj)}
\* The text of a primitive value: the string itself, the decimal form of a
\* number, true/false, null.
PrimText(v) == CASE v.t = "str" -> v.s
                 [] v.t = "num" -> ToString(v.n)
                 [] v.t = "bool" -> (IF v.b THEN "true" ELSE "false")
                 [] OTHER -> "null"

\* C16, as stated: decode(encode(m)) == m for every mapping m of
\* string-keyed primitive values (strings, numbers, booleans, null).
C16_RoundTripIdentity ==
  FnDone("roundtrip") =>
    \A k \in TagNames : AsValue(fn.out[k]) = Lookup(fn.input, k)

\* C16, amended: decode(encode(m)) has the keys of m and maps each to the
\* text of m's value, so it equals m exactly when every value of m is a
\* string; a number, boolean or null comes back as its text.
C16_RoundTripIsText ==
  FnDone("roundtrip") =>
    /\ KeysOf(fn.out) = KeysOfObj(fn.input)
    /\ \A k \in KeysOfObj(fn.input) : fn.out[k] = PrimText(Lookup(fn.input, k))
    /\ (\A k \in KeysOfObj(fn.input) : Lookup(fn.input, k).t = "str")
         <=> (\A k \in TagNames : AsValue(fn.out[k]) = Lookup(fn.input, k))

C16_Witness ==
  /\ FnDone("roundtrip")
  /\ fn.input = <<Entry("Code", VNum(5)), Entry("Status", VStr("x"))>>
  /\ fn.out["Code"] = "5" /\ fn.out["Status"] = "x"

\* C17: toString never throws and returns a string for every input: a
\* string unchanged, a number in decimal form, any other value as its JSON
\* text, and a value whose serialization fails as its String coercion.
C17_ToStringReturnsString ==
  FnDone("toString") =>
    /\ fn.out.t = "str"
    /\ fn.input.t = "str" => fn.out = fn.input
    /\ fn.input.t = "num" => fn.out.s = ToString(fn.input.n)
    /\ fn.input.t = "bool" => fn.out.s = (IF fn.input.b THEN "true" ELSE "false")
    /\ fn.input.t = "null" => fn.out.s = "null"
    /\ fn.input.t = "cyclic" => fn.out.s = "[object Object]"

\* C18: getDataFromMessage never throws; it returns the parsed value when
\* the message's raw data is valid JSON, and the raw data unchanged
\* otherwise.
C18_DataOfNeverThrows ==
  FnDone("dataOf") =>
    LET msg == fn.input.msg
        idx == fn.input.idx
        there == msg.hasMessages /\ idx >= 1 /\ idx <= Len(msg.Messages)
    IN /\ ~fn.out.thrown
       /\ there /\ msg.Messages[idx].Data.d = "json" =>
            fn.out.val = msg.Messages[idx].Data.val
       /\ there /\ msg.Messages[idx].Data.d = "text" =>
            fn.out.val = JStr(msg.Messages[idx].Data.s)
       /\ (~there \/ msg.Messages[idx].Data.d = "undef") => fn.out.val = JUndef

C18_Witness ==
  /\ FnDone("dataOf")
  /\ fn.input.idx = 1 /\ Len(fn.input.msg.Messages) = 1
  /\ fn.input.msg.Messages[1].Data = DText("plain")
  /\ fn.out = [thrown |-> FALSE, val |-> JStr("plain")]

TagsOfAt(impls) ==
  LET msg == fn.input.msg
      idx == fn.input.idx
      there == msg.hasMessages /\ idx >= 1 /\ idx <= Len(msg.Messages)
  IN \A im \in impls :
       /\ ~msg.hasMessages => fn.out[im] = "Invalid message format"
       /\ msg.hasMessages /\ ~there => fn.out[im] = "Index out of bounds"
       /\ fn.out[im] = "mapping" <=> there

CallsSettle == \A c \in {"check", "fetch", "infer", "submit"} : []<>(c \notin outstanding)
Fairness ==
  /\ CallsSettle
  /\ WF_vars(SleepDone)
  /\ WF_vars(IssueCheck)

SpecLive == Spec /\ Fairness

\* C20: if every call returns or fails and every sleep elapses, then from
\* every state that is not the fatal termination the poller issues the next
\* Checking call (or, in its last modelled iteration, is back at the top of
\* the loop about to issue it), unless it terminates: it never stays in
\* Fetching, Inferring, Submitting or the failure handling.
C20_ChecksAgain ==
  \A k \in 0..MaxIters :
    (iters = k /\ Running) ~>
      \/ iters > k
      \/ iters = MaxIters /\ pc = "loop"
      \/ pc = "exited"

C20_Witness ==
  /\ iters = 2 /\ pc = "checking" /\ failures = 1
  /\ outstanding = {"check"}

\* The remote and inference calls main() issues.
CallEvents == {"check", "fetch", "infer", "submit"}

\* C21: after a Task-Response call failed the poller does not send it again:
\* nothing but the error log and one sleep of the poll interval follows in
\* the iteration, so the next call is the Checking call of the next
\* iteration; and every Task-Response call of an iteration comes after a
\* Get-Pending-Task response of that iteration that returned the ref and
\* after an inference of that iteration that succeeded.
C21_NoResendAfterSubmitFailure ==
  /\ \A i \in Idx("submitRet") :
       hist[i].code = "THROWN" =>
         /\ \A k \in (i + 1)..Len(hist) : hist[k].ev \notin CallEvents
         /\ outstanding = {}
         /\ pc \in {"sleeping", "loop"}
         /\ Cardinality({k \in Idx("sleep") : k > i}) = (IF pc = "loop" THEN 1 ELSE 0)
         /\ \A k \in Idx("sleep") : hist[k].ms = POLL_INTERVAL
  /\ \A k \in Idx("submit") :
       \E i \in Idx("fetchRet"), l \in Idx("inferRet") :
         /\ i < l /\ l < k
         /\ hist[i].code = "200" /\ hist[i].ref = hist[k].ref
         /\ hist[l].code = "ok"
  /\ Count("submit") <= 1

C21_Witness ==
  /\ iters = 2 /\ failures = 1
  /\ pc = "submitting"
  /\ submitted["t1"] = {"o1", "o2"}
  /\ \E k \in Idx("submit") : hist[k].ref = "t1"

\* ------------------------------------- both clients, one call at a time
\* One runHyperBeamInference(prompt, config) call.
InferCall(p, c) ==
  [pc |-> "httpNew", msgType |-> "http", prompt |-> p, config |-> c,
   query |-> <<>>, ops |-> <<>>, why |-> "none", out |-> "-"]

\* runHyperBeamInference, the query: prompt, and config only if (config).
queryParams(prompt, config) ==
  <<Tag("prompt", prompt)>>
  \o (IF config \in {ABSENT, ""} THEN <<>> ELSE <<Tag("config", config)>>)

InferFinish_retry(c, reply) ==
  IF reply.kind # "ok" /\ Len(c.ops) < 2
  THEN [c EXCEPT !.pc = "httpNew", !.why = reply.kind]
  ELSE [c EXCEPT !.pc = IF reply.kind = "ok" THEN "returned" ELSE "thrown",
                 !.why = reply.kind, !.out = reply.out]
\* runHyperBeamInference, after axios.get settled: return response.data, or
\* log and throw.
InferFinish(c, reply) ==
  LET r == runHyperBeamInference(reply)
  IN [c EXCEPT !.pc = IF r.ok THEN "returned" ELSE "thrown",
               !.why = reply.kind,
               !.out = r.out]

InitClients ==
  /\ impl = "ao"
  /\ PollerAtStart
  /\ tally = TallyOff
  /\ fn = FnNone
  /\ \/ ex \in {ExecCall(mt, tg, d, cs) :
                  mt \in ExecModes, tg \in ExecTags, d \in ExecDatas, cs \in BOOLEAN}
     \/ ex \in {InferCall(p, c) : p \in Prompts, c \in Configs \cup {DEFAULT_CONFIG}}

\* runHyperBeamInference builds the query and sends the GET request.
InferBegin ==
  /\ ex.pc = "httpNew"
  /\ ex' = [ex EXCEPT !.pc = "http",
                      !.query = queryParams(ex.prompt, ex.config),
                      !.ops = Append(@, RemoteOp("http", FALSE, "-"))]
  /\ UNCHANGED <<pollerVars, fn>>

\* axios.get settles: a response, a timeout or an error.
InferHttpReturn ==
  /\ ex.pc = "http"
  /\ \E reply \in InferReplies : ex' = InferFinish(ex, reply)
  /\ UNCHANGED <<pollerVars, fn>>

NextClients ==
  \/ ExecBegin
  \/ ExecDryrunReturn
  \/ ExecMessageReturn
  \/ ExecResultReturn
  \/ InferBegin
  \/ InferHttpReturn

SpecClients == InitClients /\ [][NextClients]_vars

\* The requests of the call so far that submit something to the remote side.
Requests == {i \in 1..Len(ex.ops) : ex.ops[i].op \in {"dryrun", "message", "http"}}

\* C22: neither client retries: one execute call makes at most one dry run
\* or message submission, one inference call at most one HTTP request,
\* whether it succeeds or fails; a failure of the request ends the call
\* with the failure thrown to the caller.
C22_ClientsDoNotRetry ==
  /\ Cardinality(Requests) <= 1
  /\ ExecDone => Cardinality(Requests) = 1
  /\ (ExecDone /\ ex.why \in {"transport", "timeout", "network", "status500"}) =>
       ex.pc = "thrown"
  /\ (ex.msgType = "http" /\ ex.pc = "returned") => ex.why = "ok" /\ ex.out \in Outputs

C22_Witness ==
  /\ ex.msgType = "http" /\ ex.pc = "thrown"
  /\ ex.why = "timeout"
  /\ Len(ex.ops) = 1

\* C23: when the Get-Pending-Task response carries Code=200 but its payload
\* is not a JSON task with a ref and a prompt, the step fails: no inference
\* call and no Task-Response call is made in the iteration, an error is
\* logged, and the loop goes to the sleep of one poll interval.
C23_MalformedTaskFails ==
  \A i \in Idx("fetchRet") :
    (hist[i].code = "200" /\ (hist[i].ref \notin Refs \/ hist[i].prompt \notin Prompts)) =>
      /\ Count("infer") = 0 /\ Count("submit") = 0
      /\ \E k \in Idx("log") : k > i /\ hist[k].code = "error"
      /\ failures >= 1
      /\ pc \in {"sleeping", "loop"}
      /\ \A k \in Idx("sleep") : hist[k].ms = POLL_INTERVAL

\* ------------------------------------------------ the payload on the wire
\* Payloads handed to sendMessage / dryRun and to requestHB.
PayloadVals == {VStr("x"), VNum(5), VNull, VUndef, VObj}

\* sendMessage / dryRun: the default parameter data = null.
sendMessageData(data) == IF data.t = "undef" THEN VNull ELSE data

\* execute: options.data = this.toString(data).
executeData(data) == toString(data)

\* requestHB: data: data || "", entries with a falsy value filtered out
\* (VUndef: no data entry), objects JSON.stringify'ed, the rest String(value).
requestHBData(data) ==
  LET given == IF data.t \in {"undef", "null"} \/ data = VStr("") \/ data = VNum(0)
               THEN VStr("") ELSE data
  IN IF given = VStr("") THEN VUndef
     ELSE IF typeOf(given) = "object" THEN JSONstringify(given).val
     ELSE VStr(StringCoerce(given))

\* The data of the Get-Pending-Task envelope each poller sends.
getPendingTaskData(im) ==
  IF im = "hb" THEN receiveTaskRequest(NODE_ID).data
  ELSE getPendingTaskOptions(NODE_ID).data

InitWire ==
  /\ impl = "ao"
  /\ PollerAtStart
  /\ tally = TallyOff
  /\ ex = ExNone
  /\ \/ PureCalls
     \/ fn \in {FnCall("payload", v) : v \in PayloadVals}
     \/ fn \in {FnCall("getPendingTask", im) : im \in Impls}

\* The payload goes through both clients.
PayloadCall ==
  /\ fn.op = "payload" /\ fn.stage = "in"
  /\ fn' = FnOut(fn, [ao |-> executeData(sendMessageData(fn.input)),
                      hb |-> requestHBData(fn.input)])
  /\ UNCHANGED <<pollerVars, ex>>

\* The poller builds its Get-Pending-Task envelope.
GetPendingTaskCall ==
  /\ fn.op = "getPendingTask" /\ fn.stage = "in"
  /\ fn' = FnOut(fn, getPendingTaskData(fn.input))
  /\ UNCHANGED <<pollerVars, ex>>

NextWire ==
  \/ Decode
  \/ RoundTrip
  \/ StringifyCall
  \/ DataOfCall
  \/ TagsOfCall
  \/ PayloadCall
  \/ GetPendingTaskCall

SpecWire == InitWire /\ [][NextWire]_vars

\* What the spec has on the wire for a payload: nothing for null and
\* undefined, the string itself, the decimal text of a number, the JSON text
\* of an object.
WireForm(v) == CASE v.t \in {"null", "undef"} -> VUndef
                 [] v.t = "str" -> v
                 [] v.t = "num" -> VStr(ToString(v.n))
                 [] OTHER -> VStr("{\"a\":1}")

\* C24: the payload of every envelope is a string, a null or undefined
\* payload is left out of the envelope (not sent as the text "null"),
\* numbers are stringified and objects JSON-encoded; the Get-Pending-Task
\* call, which passes no payload, sends none.
C24_PayloadStringOrOmitted ==
  /\ FnDone("payload") =>
       /\ fn.out.ao = WireForm(fn.input)
       /\ fn.out.hb = WireForm(fn.input)
  /\ FnDone("getPendingTask") => fn.out.enc = "none"

\* C25: the inference call of an iteration gets the fetched task's own
\* config when the task carries one and the fixed default configuration
\* when it carries none; it is never made without a config.
C25_InferenceConfigOrDefault ==
  \A k \in Idx("infer") :
    /\ hist[k].config # ABSENT
    /\ \A i \in Idx("fetchRet") :
         hist[i].code = "200" =>
           hist[k].config = (IF hist[i].config = ABSENT THEN DEFAULT_CONFIG
                             ELSE hist[i].config)

\* ------------------------------------------------ the run, calls counted
InitTally ==
  /\ impl \in Impls
  /\ PollerAtStart
  /\ tally = TallyZero
  /\ ex = ExNone
  /\ fn = FnNone

SpecTally == InitTally /\ [][Next]_vars

\* C26: in every state of a run, Task-Response calls issued <= inference
\* calls that succeeded <= inference calls issued <= Get-Pending-Task
\* responses with Code=200 <= Get-Pending-Task calls issued <= Checking
\* calls that reported work <= Checking calls issued; and an iteration
\* issues at most one call of each kind.
C26_CounterChain ==
  /\ tally.submit <= tally.inferOk
  /\ tally.inferOk <= tally.infer
  /\ tally.infer <= tally.fetch200
  /\ tally.fetch200 <= tally.fetch
  /\ tally.fetch <= tally.work
  /\ tally.work <= tally.check
  /\ tally.check = iters
  /\ \A c \in CallEvents : Count(c) <= 1

C26_Witness ==
  /\ tally.check = 3 /\ tally.work = 3 /\ tally.fetch = 3 /\ tally.fetch200 = 2
  /\ tally.infer = 2 /\ tally.inferOk = 1 /\ tally.submit = 1
  /\ pc = "loop"

\* A pending_taskcount value that is a number above 0, or the text of one.
PositiveCount(v) ==
  \/ v.t = "num" /\ v.n > 0
  \/ v.t = "str" /\ IsDecimal(v.s) /\ DecimalOf(v.s) > 0

\* C27: in the index.ts poller the Checking step reports work exactly when
\* pending_taskcount is a number above 0 (as number or as text); a count of
\* 0 and a non-numeric value give NoWork without an error; a null or
\* undefined response makes the step fail; and the Get-Pending-Task call is
\* issued in an iteration only after the Checking step reported work.
C27_HasPendingTask ==
  impl = "hb" =>
    /\ \A i \in Idx("checkRet") :
         /\ hist[i].code = "THROWN" =>
              /\ Count("fetch") = 0
              /\ \E k \in Idx("log") : k > i /\ hist[k].code = "error"
              /\ failures >= 1
         /\ hist[i].code # "THROWN" =>
              /\ hist[i].cache.t \notin {"null", "undef", "none"}
              /\ Count("fetch") = 1 <=> PositiveCount(hist[i].cache)
              /\ ~PositiveCount(hist[i].cache) =>
                   /\ ~Logged("error")
                   /\ failures = 0
                   /\ pc \in {"sleeping", "loop"}
                   /\ outstanding = {}
    /\ \A k \in Idx("fetch") :
         \E i \in Idx("checkRet") : i < k /\ PositiveCount(hist[i].cache)

C27_Witness ==
  /\ impl = "hb"
  /\ pc = "sleeping"
  /\ \E i \in Idx("checkRet") : hist[i].cache = CStr("abc")
  /\ Count("fetch") = 0 /\ ~Logged("error")

====
